---- MODULE Spec2Model ----
(***************************************************************************)
(* System Command Center: the sampling-and-derivation layer of the        *)
(* dashboard (rate samplers, CPU usage, history buffers, severity         *)
(* classification) and the tick callback update_all that drives it.       *)
(*                                                                         *)
(* The model follows system_command_center_v4.py; the first variant       *)
(* (system_command_center.py) is modelled where it differs.               *)
(*                                                                         *)
(* Numbers.  Python computes the rates and percentages in floating point; *)
(* the model computes them as exact rationals <<n, d>> in lowest terms    *)
(* with d > 0.  Timestamps (time.time()) are integers in clock units.     *)
(*                                                                         *)
(* Environment.  Everything the program reads (counter files, the clock,  *)
(* the telemetry blob) is an input of the action that reads it.  The sets *)
(* the inputs are drawn from depend on an environment name e; each        *)
(* specification below is the same tick machine under one environment.    *)
(***************************************************************************)
EXTENDS Integers, Sequences, FiniteSets, TLC

\* ------------------------------------------------------------------ bounds

\* Ticks (invocations of update_all) a behaviour runs.
MaxTicks == 3

\* Ticks of the environment in which reads fail and exceptions escape.
MaxTicksFaults == 2

\* Pushes the history-buffer harness performs beyond the capacity.
ExtraPushes == 3

\* Runs of the animation callback after the one __init__ makes.
MaxFrames == 3

\* ------------------------------------------------------- program constants

\* self.cpu_history = [0] * 60, and the same for the other histories.
HistLen == 60

\* int(parts[5]) * 512 in get_disk_io.
SectorSize == 512

\* ---------------------------------------------------------------- numbers

Abs(n) == IF n < 0 THEN -n ELSE n

RECURSIVE GCD(_, _)
GCD(a, b) == IF b = 0 THEN a ELSE GCD(b, a % b)

\* What n / 0 yields: Python raises ZeroDivisionError.
DivZero == <<0, 0>>

\* Python's n / d: the rational in lowest terms with a positive denominator.
Rat(n, d) ==
    LET g == GCD(Abs(n), Abs(d))
    IN  IF d = 0 THEN DivZero
        ELSE IF n = 0 THEN <<0, 1>>
        ELSE IF (n < 0) # (d < 0) THEN <<-(Abs(n) \div g), Abs(d) \div g>>
        ELSE <<Abs(n) \div g, Abs(d) \div g>>

FromInt(n) == <<n, 1>>

Zero == <<0, 1>>

RatLT(a, b) == a[1] * b[2] < b[1] * a[2]

RatLE(a, b) == a[1] * b[2] <= b[1] * a[2]

\* Python's max(a, b) and min(a, b): the first argument unless the second
\* is strictly larger (smaller).
RatMax(a, b) == IF RatLT(a, b) THEN b ELSE a

RatMin(a, b) == IF RatLT(b, a) THEN b ELSE a

RatSub(a, b) == Rat(a[1] * b[2] - b[1] * a[2], a[2] * b[2])

RatMul(a, b) == Rat(a[1] * b[1], a[2] * b[2])

\* ----------------------------------------------------------------- state

VARIABLES
    \* history buffers (lists of 60 numbers)
    cpu_history, gpu_temp_history, net_rx_history, net_tx_history,
    disk_read_history, disk_write_history,
    \* previous samples of the rate streams
    last_net_rx, last_net_tx, last_net_time,
    last_disk_read, last_disk_write, last_disk_time,
    \* previous CPU tick counters; has_last_cpu is hasattr(self, 'last_cpu_idle')
    has_last_cpu, last_cpu_idle, last_cpu_total,
    \* core index -> [idle, total], defined on the cores sampled so far
    last_core_stats,
    num_cores, has_root,
    \* the environment the program runs in (which sources vary, and how)
    env,
    current_gpu_temp, current_cpu_temp, current_cpu_usage, is_critical,
    \* what the widgets show
    ui,
    \* position of the tick callback, ticks run, scheduled invocations
    pc, ticks, pending,
    \* times the except clause of update_all ran ("Update error" printed)
    errors,
    \* what the latest call of each sampler read, held and returned
    net_call, disk_call, cpu_call, core_call,
    \* the animation callback: its state and its scheduled invocations
    pulse_state, alert_flash, anim_pending,
    \* what the latest call of each gauge sampler read and returned, and in
    \* which tick; the reads of /proc/stat made so far in this tick
    gauge_call, stat_reads,
    \* how many values each unconditionally pushed history has received
    pushes,
    \* the harnesses of the pure functions: pushed values; classifier input/output
    pushed, cls

hist_vars == <<cpu_history, gpu_temp_history, net_rx_history, net_tx_history,
               disk_read_history, disk_write_history>>

net_vars == <<last_net_rx, last_net_tx, last_net_time, net_call>>

disk_vars == <<last_disk_read, last_disk_write, last_disk_time, disk_call>>

cpu_vars == <<has_last_cpu, last_cpu_idle, last_cpu_total, cpu_call>>

core_vars == <<last_core_stats, core_call>>

cfg_vars == <<num_cores, has_root, env>>

cur_vars == <<current_gpu_temp, current_cpu_temp, current_cpu_usage, is_critical>>

sched_vars == <<pc, ticks, pending, errors>>

anim_vars == <<pulse_state, alert_flash, anim_pending>>

probe_vars == <<gauge_call, stat_reads>>

harness_vars == <<pushed, cls>>

vars == <<hist_vars, net_vars, disk_vars, cpu_vars, core_vars, cfg_vars,
          cur_vars, ui, sched_vars, anim_vars, probe_vars, pushes, harness_vars>>

\* ------------------------------------------------------------ environment

\* A value that could not be read: Python's None.
None == <<>>

\* A plain integer that is there (an int where None is possible).
Some(x) == <<x>>

\* A counter file that could not be read or parsed.
NoRead == -1

\* A whole read that raises (missing directory, unreadable file).
Fail == [ok |-> FALSE]

\* time.time() in get_network_speed.  Where the clock is not what is varied
\* it advances by one unit a tick.
NetClock(e) == IF e \in {"net", "v1"} THEN 0..2 ELSE {ticks}

\* time.time() in get_disk_io.
DiskClock(e) == IF e = "disk" THEN 0..2 ELSE {ticks}

\* time.time() in __init__.
InitClock(e) == {0}

\* /sys/class/net: the interfaces with their rx_bytes and tx_bytes.
NetReadings(e) ==
    CASE e \in {"net", "v1"} ->
            {Fail} \cup
            {[ok |-> TRUE,
              ifaces |-> <<[name |-> "lo", rx |-> 9, tx |-> 9],
                           [name |-> "eth0", rx |-> r, tx |-> t]>>] :
                 r \in 0..2, t \in 0..2}
      [] e = "faults" ->
            {Fail,
             [ok |-> TRUE,
              ifaces |-> <<[name |-> "veth0", rx |-> 4, tx |-> 4],
                           [name |-> "eth0", rx |-> 3 * ticks, tx |-> ticks]>>]}
      [] e = "ifaces" ->
            {[ok |-> TRUE,
              ifaces |-> <<[name |-> "eth0", rx |-> 10 * ticks, tx |-> ticks]>>]}
            \cup
            {[ok |-> TRUE,
              ifaces |-> <<[name |-> "eth0", rx |-> 10 * ticks, tx |-> ticks],
                           [name |-> "wlan0", rx |-> r, tx |-> r]>>] :
                 r \in {NoRead, 500}}
      [] OTHER ->
            {[ok |-> TRUE, ifaces |-> <<[name |-> "eth0", rx |-> 1, tx |-> 1]>>]}

\* /proc/diskstats: the block devices with sectors read and written.
DiskReadings(e) ==
    CASE e = "disk" ->
            {Fail} \cup
            {[ok |-> TRUE,
              devs |-> <<[name |-> "sda", rd |-> 7, wr |-> 7],
                         [name |-> "nvme0n1", rd |-> r, wr |-> w]>>] :
                 r \in 0..2, w \in 0..2}
      [] e = "faults" ->
            {Fail,
             [ok |-> TRUE,
              devs |-> <<[name |-> "nvme0n1", rd |-> ticks, wr |-> 2 * ticks],
                         [name |-> "nvme1n1", rd |-> 1, wr |-> 0]>>]}
      [] OTHER ->
            {[ok |-> TRUE, devs |-> <<[name |-> "nvme0n1", rd |-> 1, wr |-> 1]>>]}

\* ------------------------------------------------------------ rate streams

\* iface.name not in ('lo', 'docker0') and not iface.name.startswith('veth')
CountedIface(name) ==
    /\ name \notin {"lo", "docker0"}
    /\ name \notin {"veth0", "veth1"}

\* The loop of get_network_speed: an interface whose rx_bytes cannot be read
\* adds nothing; one whose tx_bytes cannot be read adds its rx_bytes only.
RECURSIVE NetTotals(_)
NetTotals(ifaces) ==
    IF ifaces = <<>> THEN [rx |-> 0, tx |-> 0]
    ELSE LET i == Head(ifaces)
             rest == NetTotals(Tail(ifaces))
         IN  IF ~CountedIface(i.name) \/ i.rx = NoRead THEN rest
             ELSE IF i.tx = NoRead THEN [rx |-> rest.rx + i.rx, tx |-> rest.tx]
             ELSE [rx |-> rest.rx + i.rx, tx |-> rest.tx + i.tx]

\* parts[2].startswith('nvme')
IsNvme(name) == name \in {"nvme0n1", "nvme1n1"}

\* The loop of get_disk_io: sectors of the nvme devices, times 512.
RECURSIVE DiskTotals(_)
DiskTotals(devs) ==
    IF devs = <<>> THEN [rd |-> 0, wr |-> 0]
    ELSE LET d == Head(devs)
             rest == DiskTotals(Tail(devs))
         IN  IF IsNvme(d.name)
             THEN [rd |-> rest.rd + d.rd * SectorSize,
                   wr |-> rest.wr + d.wr * SectorSize]
             ELSE rest

\* A rate that divides whatever the elapsed time is.
RateOf_Unguarded(total, last, elapsed) ==
    IF last > 0 THEN Rat(total - last, elapsed) ELSE Zero

\* (total - last) / elapsed if elapsed > 0 and last > 0 else 0
RateOf(total, last, elapsed) ==
    IF elapsed > 0 /\ last > 0 THEN Rat(total - last, elapsed) ELSE Zero

\* The first variant: (total - last) / elapsed if elapsed > 0 else 0
RateOfV1(total, last, elapsed) ==
    IF elapsed > 0 THEN Rat(total - last, elapsed) ELSE Zero

\* A rate returned as computed.
ClampRate_None(speed) == speed

\* max(0, speed)
ClampRate(speed) == RatMax(Zero, speed)

\* What a sampler returns from its except clause, having stored nothing.
Raised(call, zero, zerodiv) ==
    [call EXCEPT !.ok = FALSE, !.ret = zero, !.zerodiv = zerodiv]

\* get_network_speed: on a failed read, or when a division raises, nothing is
\* stored and 0, 0 is returned.
get_network_speed(reading, now) ==
    LET tot == NetTotals(reading.ifaces)
        elapsed == now - last_net_time
        rx_speed == RateOf(tot.rx, last_net_rx, elapsed)
        tx_speed == RateOf(tot.tx, last_net_tx, elapsed)
    IN  IF ~reading.ok
        THEN /\ net_call' = Raised(net_call, <<Zero, Zero>>, FALSE)
             /\ UNCHANGED <<last_net_rx, last_net_tx, last_net_time>>
        ELSE IF DivZero \in {rx_speed, tx_speed}
        THEN /\ net_call' = Raised(net_call, <<Zero, Zero>>, TRUE)
             /\ UNCHANGED <<last_net_rx, last_net_tx, last_net_time>>
        ELSE /\ last_net_rx' = tot.rx
             /\ last_net_tx' = tot.tx
             /\ last_net_time' = now
             /\ net_call' = [n |-> net_call.n + 1, ok |-> TRUE, zerodiv |-> FALSE,
                             read |-> <<tot.rx, tot.tx, now>>,
                             prev_read |-> net_call.read,
                             src |-> reading, prev_src |-> net_call.src,
                             ret |-> <<ClampRate(rx_speed), ClampRate(tx_speed)>>]

\* get_disk_io
get_disk_io(reading, now) ==
    LET tot == DiskTotals(reading.devs)
        elapsed == now - last_disk_time
        read_speed == RateOf(tot.rd, last_disk_read, elapsed)
        write_speed == RateOf(tot.wr, last_disk_write, elapsed)
    IN  IF ~reading.ok
        THEN /\ disk_call' = Raised(disk_call, <<Zero, Zero>>, FALSE)
             /\ UNCHANGED <<last_disk_read, last_disk_write, last_disk_time>>
        ELSE IF DivZero \in {read_speed, write_speed}
        THEN /\ disk_call' = Raised(disk_call, <<Zero, Zero>>, TRUE)
             /\ UNCHANGED <<last_disk_read, last_disk_write, last_disk_time>>
        ELSE /\ last_disk_read' = tot.rd
             /\ last_disk_write' = tot.wr
             /\ last_disk_time' = now
             /\ disk_call' = [n |-> disk_call.n + 1, ok |-> TRUE, zerodiv |-> FALSE,
                              read |-> <<tot.rd, tot.wr, now>>,
                              prev_read |-> disk_call.read,
                              src |-> reading, prev_src |-> disk_call.src,
                              ret |-> <<ClampRate(read_speed), ClampRate(write_speed)>>]

\* The loop of the first variant: only 'lo' is left out, and a missing
\* rx_bytes or tx_bytes file is skipped on its own.
RECURSIVE NetTotalsV1(_)
NetTotalsV1(ifaces) ==
    IF ifaces = <<>> THEN [rx |-> 0, tx |-> 0]
    ELSE LET i == Head(ifaces)
             rest == NetTotalsV1(Tail(ifaces))
         IN  IF i.name = "lo" THEN rest
             ELSE [rx |-> rest.rx + (IF i.rx = NoRead THEN 0 ELSE i.rx),
                   tx |-> rest.tx + (IF i.tx = NoRead THEN 0 ELSE i.tx)]

\* get_network_speed of the first variant
get_network_speed_v1(reading, now) ==
    LET tot == NetTotalsV1(reading.ifaces)
        elapsed == now - last_net_time
        rx_speed == RateOfV1(tot.rx, last_net_rx, elapsed)
        tx_speed == RateOfV1(tot.tx, last_net_tx, elapsed)
    IN  IF ~reading.ok
        THEN /\ net_call' = Raised(net_call, <<Zero, Zero>>, FALSE)
             /\ UNCHANGED <<last_net_rx, last_net_tx, last_net_time>>
        ELSE IF DivZero \in {rx_speed, tx_speed}
        THEN /\ net_call' = Raised(net_call, <<Zero, Zero>>, TRUE)
             /\ UNCHANGED <<last_net_rx, last_net_tx, last_net_time>>
        ELSE /\ last_net_rx' = tot.rx
             /\ last_net_tx' = tot.tx
             /\ last_net_time' = now
             /\ net_call' = [n |-> net_call.n + 1, ok |-> TRUE, zerodiv |-> FALSE,
                             read |-> <<tot.rx, tot.tx, now>>,
                             prev_read |-> net_call.read,
                             src |-> reading, prev_src |-> net_call.src,
                             ret |-> <<ClampRate(rx_speed), ClampRate(tx_speed)>>]

\* ---------------------------------------------------------- history buffer

\* A push that evicts the newest element instead of the oldest.
HistoryPush_EvictNewest(history, value) ==
    Append(SubSeq(history, 1, Len(history) - 1), value)

\* A push that evicts nothing.
HistoryPush_NoPop(history, value) == Append(history, value)

\* history.pop(0); history.append(value)
HistoryPush(history, value) == Append(Tail(history), value)

\* [0] * 60
ZeroHistory == [i \in 1..HistLen |-> Zero]


\* ------------------------------------------------------------- CPU usage

\* /proc/stat, first line: the tick counters user, nice, system, idle.
StatReadings(e) ==
    CASE e = "cpu" ->
            {Fail} \cup
            {[ok |-> TRUE, fields |-> f] :
                f \in {<<0, 0, 0, 0>>,
                       <<600, 0, 400, 1000>>,
                       <<700, 0, 400, 1400>>,
                       <<700, 0, 300, 1500>>,
                       <<500, 0, 400, 1200>>,
                       <<1000, 0, 400, 1400>>,
                       <<1000, 0, 600, 1300>>}}
      [] e = "faults" -> {Fail, [ok |-> TRUE, fields |-> <<ticks, 0, 0, 3 * ticks>>]}
      [] e = "direct" -> {Fail, [ok |-> TRUE, fields |-> <<ticks, 0, 0, ticks>>]}
      [] OTHER -> {[ok |-> TRUE, fields |-> <<1, 0, 0, 1>>]}

\* A cpuN line that cannot be parsed (or is not there).
BadLine == <<>>

\* /proc/stat, the lines after the first: one per core.
CoreLine(e) ==
    CASE e = "cores" -> {BadLine, <<0, 0, 0, 0>>, <<3, 0, 0, 1>>, <<4, 0, 0, 4>>,
                         <<4, 0, 0, 6>>, <<3, 0, 0, 7>>}
      [] e = "faults" -> {BadLine, <<ticks, 0, 0, ticks>>}
      [] OTHER -> {<<1, 0, 0, 1>>}

CoreReadings(e, n) ==
    (IF e \in {"cores", "faults"} THEN {Fail} ELSE {})
        \cup {[ok |-> TRUE, lines |-> l] : l \in [1..n -> CoreLine(e)]}

\* int(subprocess.getoutput("nproc")), or 8
NumCores(e) == IF e = "cores" THEN {2} ELSE {1}

RECURSIVE SeqSum(_)
SeqSum(q) == IF q = <<>> THEN 0 ELSE Head(q) + SeqSum(Tail(q))

\* The idle share instead of the busy share.
UsageOf_IdleShare(d_idle, d_total) ==
    IF d_total > 0 THEN Rat(100 * d_idle, d_total) ELSE Zero

\* 100 * (1 - d_idle / d_total) if d_total > 0 else 0
UsageOf(d_idle, d_total) ==
    IF d_total > 0 THEN Rat(100 * (d_total - d_idle), d_total) ELSE Zero

\* A usage returned as computed.
ClampUsage_None(usage) == usage

\* max(0, min(100, usage))
ClampUsage(usage) == RatMax(Zero, RatMin(FromInt(100), usage))

\* get_cpu_usage
get_cpu_usage(reading) ==
    LET idle == reading.fields[4]
        total == SeqSum(reading.fields)
        usage == IF has_last_cpu
                 THEN UsageOf(idle - last_cpu_idle, total - last_cpu_total)
                 ELSE Zero
    IN  IF ~reading.ok
        THEN /\ cpu_call' = Raised(cpu_call, Zero, FALSE)
             /\ UNCHANGED <<has_last_cpu, last_cpu_idle, last_cpu_total>>
        ELSE IF usage = DivZero
        THEN /\ cpu_call' = Raised(cpu_call, Zero, TRUE)
             /\ UNCHANGED <<has_last_cpu, last_cpu_idle, last_cpu_total>>
        ELSE /\ has_last_cpu' = TRUE
             /\ last_cpu_idle' = idle
             /\ last_cpu_total' = total
             /\ cpu_call' = [n |-> cpu_call.n + 1, ok |-> TRUE, zerodiv |-> FALSE,
                             read |-> <<idle, total>>,
                             prev_read |-> cpu_call.read,
                             src |-> reading, prev_src |-> cpu_call.src,
                             ret |-> ClampUsage(usage)]

\* The loop of get_per_core_usage from core i on: the previous samples and
\* the usages so far, and whether a line raised.
RECURSIVE CoreLoop(_, _, _, _, _)
CoreLoop(i, n, lines, stats, usages) ==
    IF i >= n THEN [stats |-> stats, usages |-> usages, raised |-> FALSE,
                    zerodiv |-> FALSE]
    ELSE IF lines[i + 1] = BadLine
    THEN [stats |-> stats, usages |-> usages, raised |-> TRUE, zerodiv |-> FALSE]
    ELSE LET idle == lines[i + 1][4]
             total == SeqSum(lines[i + 1])
             usage == IF i \in DOMAIN stats
                      THEN UsageOf(idle - stats[i].idle, total - stats[i].total)
                      ELSE Zero
             stats2 == [k \in DOMAIN stats \cup {i} |->
                          IF k = i THEN [idle |-> idle, total |-> total]
                          ELSE stats[k]]
         IN  IF usage = DivZero
             THEN [stats |-> stats, usages |-> usages, raised |-> TRUE,
                   zerodiv |-> TRUE]
             ELSE CoreLoop(i + 1, n, lines, stats2,
                           Append(usages, ClampUsage(usage)))

\* get_per_core_usage: [0] * num_cores when anything raised; the previous
\* samples stored before the raise stay stored.
get_per_core_usage(reading) ==
    LET r == CoreLoop(0, num_cores, reading.lines, last_core_stats, <<>>)
    IN  IF ~reading.ok
        THEN /\ core_call' = Raised(core_call, [i \in 1..num_cores |-> Zero], FALSE)
             /\ UNCHANGED last_core_stats
        ELSE /\ last_core_stats' = r.stats
             /\ core_call' = [n |-> core_call.n + 1, ok |-> ~r.raised,
                              zerodiv |-> r.zerodiv,
                              read |-> reading.lines,
                              prev_read |-> core_call.read,
                              src |-> reading, prev_src |-> core_call.src,
                              ret |-> IF r.raised
                                      THEN [i \in 1..num_cores |-> Zero]
                                      ELSE r.usages]

\* ----------------------------------------------------------- temperatures

\* The telemetry blob: the two little-endian words at 0xa4 and 0xa8.
GpuReadings(e) ==
    CASE e \in {"faults", "hang"} ->
            {Fail, [ok |-> TRUE, t1 |-> 50 + ticks, t2 |-> 60 + ticks]}
      [] e = "gpu" ->
            {Fail} \cup {[ok |-> TRUE, t1 |-> a, t2 |-> b] :
                            a \in {0, 50, 80, 120, 130}, b \in {55, 90, 130}}
      [] e = "root" ->
            {Fail, [ok |-> TRUE, t1 |-> 50 + ticks, t2 |-> 60 + ticks]}
      [] OTHER -> {[ok |-> TRUE, t1 |-> 50, t2 |-> 55]}

\* hwmon temp1_input, in millidegrees.
TempReadings(e) ==
    CASE e \in {"faults", "root"} ->
            {Fail, [ok |-> TRUE, raw |-> 40000 + 1000 * ticks]}
      [] e = "temps" ->
            {Fail} \cup {[ok |-> TRUE, raw |-> r] :
                            r \in {-1000, 0, 40000, 80000, 120000, 130000}}
      [] e = "v1t" ->
            {Fail} \cup {[ok |-> TRUE, raw |-> r] : r \in {40000, 60000, 90000}}
      [] OTHER -> {[ok |-> TRUE, raw |-> 40000]}

\* os.geteuid() == 0
RootChoices(e) == IF e = "root" THEN {TRUE, FALSE} ELSE {TRUE}

\* A sampler that stops trying once a call has come back empty.
get_gpu_temps_GivesUp(reading) ==
    IF ~has_root THEN <<None, None>>
    ELSE IF ~reading.ok THEN <<None, None>>
    ELSE IF gauge_call.gpu.tick > 0 /\ gauge_call.gpu.ret[1] = None
    THEN <<None, None>>
    ELSE IF 0 < reading.t1 /\ reading.t1 < 120 /\ 0 < reading.t2 /\ reading.t2 < 120
    THEN <<FromInt(reading.t1), FromInt(reading.t2)>>
    ELSE <<None, None>>

\* A sampler that opens the telemetry file whatever the privilege flag is.
get_gpu_temps_IgnoresRoot(reading) ==
    IF ~reading.ok THEN <<None, None>>
    ELSE IF 0 < reading.t1 /\ reading.t1 < 120 /\ 0 < reading.t2 /\ reading.t2 < 120
    THEN <<FromInt(reading.t1), FromInt(reading.t2)>>
    ELSE <<None, None>>

\* Sensors that report 0 when the blob cannot be read or is rejected.
get_gpu_temps_ZeroWhenMissing(reading) ==
    IF has_root /\ reading.ok
       /\ 0 < reading.t1 /\ reading.t1 < 120 /\ 0 < reading.t2 /\ reading.t2 < 120
    THEN <<FromInt(reading.t1), FromInt(reading.t2)>>
    ELSE <<Zero, Zero>>

\* Sensors passed through whatever the blob holds.
get_gpu_temps_Unchecked(reading) ==
    IF has_root /\ reading.ok
    THEN <<FromInt(reading.t1), FromInt(reading.t2)>>
    ELSE <<None, None>>

\* get_gpu_temps
get_gpu_temps(reading) ==
    IF ~has_root THEN <<None, None>>
    ELSE IF ~reading.ok THEN <<None, None>>
    ELSE IF 0 < reading.t1 /\ reading.t1 < 120 /\ 0 < reading.t2 /\ reading.t2 < 120
    THEN <<FromInt(reading.t1), FromInt(reading.t2)>>
    ELSE <<None, None>>

\* What get_gpu_temps gets from the telemetry file: without the privilege
\* flag it returns before the open, and nothing is read.
telem_read(reading) == IF has_root THEN reading ELSE None

\* get_cpu_temp and get_nvme_temp: int(text) / 1000, or None
get_cpu_temp(reading) == IF reading.ok THEN Rat(reading.raw, 1000) ELSE None

get_nvme_temp(reading) == IF reading.ok THEN Rat(reading.raw, 1000) ELSE None

\* A classifier whose bands include their upper threshold.
get_temp_color_status_Inclusive(temp, thresholds) ==
    IF temp = None THEN "OFFLINE"
    ELSE IF RatLE(temp, FromInt(thresholds[1])) THEN "NOMINAL"
    ELSE IF RatLE(temp, FromInt(thresholds[2])) THEN "ELEVATED"
    ELSE "CRITICAL"

\* get_temp_color_status: the status text
get_temp_color_status(temp, thresholds) ==
    IF temp = None THEN "OFFLINE"
    ELSE IF RatLT(temp, FromInt(thresholds[1])) THEN "NOMINAL"
    ELSE IF RatLT(temp, FromInt(thresholds[2])) THEN "ELEVATED"
    ELSE "CRITICAL"


\* -------------------------------------------------------- other readings

\* hwmon1 temp1_input, in millidegrees.
NvmeReadings(e) ==
    IF e = "temps" THEN {Fail, [ok |-> TRUE, raw |-> 35000], [ok |-> TRUE, raw |-> 130000]}
    ELSE {[ok |-> TRUE, raw |-> 35000]}

\* act_freq and max_freq of the GPU, in MHz.
GpuFreqReadings(e) ==
    (IF e = "direct" THEN {Fail} ELSE {}) \cup {[ok |-> TRUE, cur |-> 300, max |-> 2400]}

\* mem_info_vram_used and mem_info_vram_total.
VramReadings(e) ==
    (IF e = "direct" THEN {Fail} ELSE {}) \cup {[ok |-> TRUE, used |-> 1, total |-> 16]}

\* fan1_input .. fan3_input, in RPM.
FanReadings(e) ==
    (IF e = "direct" THEN {<<NoRead, NoRead, NoRead>>} ELSE {}) \cup {<<1200, NoRead, 900>>}

\* The MHz lines of /proc/cpuinfo.
CpuFreqReadings(e) ==
    (IF e = "direct" THEN {Fail} ELSE {}) \cup {[ok |-> TRUE, mhz |-> <<800, 1201>>]}

\* free -b: total and used bytes of memory and swap.
MemReadings(e) ==
    (IF e \in {"direct", "hang"} THEN {Fail} ELSE {}) \cup
    {[ok |-> TRUE, mem_total |-> 8, mem_used |-> 2, swap_total |-> 0, swap_used |-> 0]}

\* An external command run with subprocess.getoutput: it returns, or it
\* never does.
CmdOutcomes(e) == IF e = "hang" THEN {"returns", "hangs"} ELSE {"returns"}

\* get_gpu_frequency
get_gpu_frequency(reading) ==
    IF reading.ok THEN <<Some(reading.cur), Some(reading.max)>> ELSE <<None, None>>

\* get_gpu_vram
get_gpu_vram(reading) ==
    IF reading.ok THEN <<Some(reading.used), Some(reading.total)>> ELSE <<None, None>>

RECURSIVE SeqMax(_)
SeqMax(q) ==
    IF Len(q) = 1 THEN Head(q)
    ELSE LET m == SeqMax(Tail(q)) IN IF Head(q) >= m THEN Head(q) ELSE m

\* get_gpu_fans: max(fans) if fans else 0, over the fans that could be read
get_gpu_fans(reading) ==
    LET fans == SelectSeq(reading, LAMBDA r : r # NoRead)
    IN  IF fans # <<>> THEN SeqMax(fans) ELSE 0

\* get_cpu_freq: int(sum(freqs) / len(freqs)) if freqs else 0; 0 on failure
get_cpu_freq(reading) ==
    IF reading.ok /\ reading.mhz # <<>>
    THEN SeqSum(reading.mhz) \div Len(reading.mhz)
    ELSE 0

\* get_memory_info: the percentages, or None
get_memory_info(reading) ==
    IF ~reading.ok THEN None
    ELSE [mem_percent |-> IF reading.mem_total > 0
                          THEN Rat(reading.mem_used * 100, reading.mem_total)
                          ELSE Zero,
          swap_percent |-> IF reading.swap_total > 0
                           THEN Rat(reading.swap_used * 100, reading.swap_total)
                           ELSE Zero]

\* ------------------------------------------------------------ tick machine

\* Where an exception escapes an update_* step: nowhere, at its first widget
\* call (after its reads), or at its last one (after all its assignments).
ExcChoices(e) ==
    CASE e = "faults" -> {"none", "early", "late"}
      [] e = "anim" -> {"none", "late"}
      [] OTHER -> {"none"}

TickBound(e) ==
    IF e \in {"faults", "gpu", "temps", "direct"} THEN MaxTicksFaults ELSE MaxTicks

\* The widgets as setup_ui leaves them.
InitialUi ==
    [gpu_temp_gauge |-> None, gpu_temp_status |-> "STANDBY",
     gpu_hotspot_gauge |-> None, gpu_hotspot_status |-> "STANDBY",
     gpu_freq_label |-> None, vram_label |-> None,
     fan_label |-> Some(0), fan_status |-> "IDLE",
     cpu_usage_gauge |-> None, cpu_temp_gauge |-> None,
     cpu_temp_status |-> "NOMINAL", nvme_temp_label |-> None,
     cpu_freq_label |-> None, core_labels |-> None, ram_percent |-> None,
     disk_read_label |-> None, disk_write_label |-> None,
     net_dl_label |-> None, net_ul_label |-> None,
     status_text |-> "ALL SYSTEMS NOMINAL"]

\* No call of a gauge sampler yet.
NoGauge == [tick |-> 0, read |-> None, ret |-> None]

NoGauges ==
    [gpu |-> NoGauge, gpu_freq |-> NoGauge, vram |-> NoGauge, fans |-> NoGauge,
     cpu_temp |-> NoGauge, nvme |-> NoGauge, cpu_freq |-> NoGauge, mem |-> NoGauge]

\* The call of a gauge sampler in this tick.
Gauge(reading, ret) == [tick |-> ticks, read |-> reading, ret |-> ret]

\* No history has been pushed to yet.
NoPushes == [cpu |-> 0, net_rx |-> 0, net_tx |-> 0, disk_read |-> 0, disk_write |-> 0]

\* No call yet.
NoCall == [n |-> 0, ok |-> FALSE, zerodiv |-> FALSE, read |-> None,
           prev_read |-> None, src |-> None, prev_src |-> None, ret |-> None]

\* __init__, up to its call of update_all.
InitV4(E) ==
    /\ env \in E
    /\ cpu_history = ZeroHistory
    /\ gpu_temp_history = ZeroHistory
    /\ net_rx_history = ZeroHistory
    /\ net_tx_history = ZeroHistory
    /\ disk_read_history = ZeroHistory
    /\ disk_write_history = ZeroHistory
    /\ last_net_rx = 0
    /\ last_net_tx = 0
    /\ last_net_time \in InitClock(env)
    /\ last_disk_read = 0
    /\ last_disk_write = 0
    /\ last_disk_time = last_net_time
    /\ has_last_cpu = FALSE
    /\ last_cpu_idle = 0
    /\ last_cpu_total = 0
    /\ last_core_stats = <<>>
    /\ num_cores \in NumCores(env)
    /\ has_root \in RootChoices(env)
    /\ current_gpu_temp = Zero
    /\ current_cpu_temp = Zero
    /\ current_cpu_usage = Zero
    /\ is_critical = FALSE
    /\ pulse_state = 1
    /\ alert_flash = TRUE
    /\ anim_pending = 1
    /\ ui = InitialUi
    /\ pc = "time"
    /\ ticks = 1
    /\ pending = 0
    /\ errors = 0
    /\ net_call = NoCall
    /\ disk_call = NoCall
    /\ cpu_call = NoCall
    /\ core_call = NoCall
    /\ gauge_call = NoGauges
    /\ stat_reads = 0
    /\ pushes = NoPushes
    /\ pushed = <<>>
    /\ cls = None

\* The step after this one: the next update_* call, or the except clause.
Advance(next, exc) ==
    /\ pc' = IF exc = "none" THEN next ELSE "resched"
    /\ errors' = IF exc = "none" THEN errors ELSE errors + 1
    /\ UNCHANGED <<ticks, pending>>

\* The timer runs the scheduled update_all.
StartTick(e) ==
    /\ pc = "idle"
    /\ pending > 0
    /\ ticks < TickBound(e)
    /\ pc' = "time"
    /\ ticks' = ticks + 1
    /\ pending' = pending - 1
    /\ stat_reads' = 0
    /\ UNCHANGED <<errors, gauge_call>>
    /\ UNCHANGED <<hist_vars, net_vars, disk_vars, cpu_vars, core_vars, cfg_vars, anim_vars, pushes,
                   cur_vars, ui, harness_vars>>

\* update_time
UpdateTime ==
    /\ pc = "time"
    /\ pc' = "gpu"
    /\ UNCHANGED <<ticks, pending, errors, hist_vars, net_vars, disk_vars, cpu_vars,
                   core_vars, cfg_vars, anim_vars, pushes, probe_vars, cur_vars, ui, harness_vars>>

\* update_gpu
UpdateGpu(e) ==
    /\ pc = "gpu"
    /\ \E reading \in GpuReadings(e), fr \in GpuFreqReadings(e),
          vr \in VramReadings(e), fans \in FanReadings(e), exc \in ExcChoices(e) :
          LET t == get_gpu_temps(reading)
              t1 == t[1]
              t2 == t[2]
              freq == get_gpu_frequency(fr)
              vram == get_gpu_vram(vr)
              rpm == get_gpu_fans(fans)
              crit1 == t1 # None /\ RatLT(FromInt(80), t1)
              crit2 == t2 # None /\ RatLT(FromInt(85), t2)
          IN  /\ current_gpu_temp' = IF t1 # None THEN t1 ELSE current_gpu_temp
              /\ IF exc = "early"
                 THEN /\ is_critical' = FALSE
                      /\ gauge_call' = [gauge_call EXCEPT !.gpu = Gauge(telem_read(reading), t)]
                      /\ UNCHANGED <<ui, gpu_temp_history>>
                 ELSE /\ is_critical' = (crit1 \/ crit2)
                      /\ gauge_call' = [gauge_call EXCEPT
                            !.gpu = Gauge(telem_read(reading), t),
                            !.gpu_freq = Gauge(fr, freq),
                            !.vram = Gauge(vr, vram),
                            !.fans = Gauge(fans, Some(rpm))]
                      /\ gpu_temp_history' =
                            IF t1 # None THEN HistoryPush(gpu_temp_history, t1)
                            ELSE gpu_temp_history
                      /\ ui' = [ui EXCEPT
                            !.gpu_temp_gauge = IF t1 # None THEN t1 ELSE Zero,
                            !.gpu_temp_status =
                                IF t1 # None THEN get_temp_color_status(t1, <<55, 80>>)
                                ELSE "NO ACCESS",
                            !.gpu_hotspot_gauge = IF t2 # None THEN t2 ELSE Zero,
                            !.gpu_hotspot_status =
                                IF t2 # None THEN get_temp_color_status(t2, <<60, 85>>)
                                ELSE "NO ACCESS",
                            !.gpu_freq_label = IF freq[1] # None THEN freq ELSE @,
                            !.vram_label = IF vram[1] # None THEN vram ELSE @,
                            !.fan_label = Some(rpm),
                            !.fan_status = IF rpm > 0 THEN "ACTIVE" ELSE "IDLE"]
              /\ Advance("cpu", exc)
    /\ UNCHANGED <<cpu_history, net_rx_history, net_tx_history, disk_read_history,
                   disk_write_history, net_vars, disk_vars, cpu_vars, core_vars,
                   cfg_vars, anim_vars, pushes, stat_reads, current_cpu_temp, current_cpu_usage,
                   harness_vars>>

\* update_cpu
UpdateCpu(e) ==
    /\ pc = "cpu"
    /\ \E reading \in StatReadings(e), tr \in TempReadings(e),
          nr \in NvmeReadings(e), fr \in CpuFreqReadings(e), exc \in ExcChoices(e) :
          LET temp == get_cpu_temp(tr)
              nvme == get_nvme_temp(nr)
              freq == get_cpu_freq(fr)
          IN  /\ get_cpu_usage(reading)
              /\ stat_reads' = stat_reads + 1
              /\ gauge_call' = [gauge_call EXCEPT
                    !.cpu_temp = Gauge(tr, temp),
                    !.nvme = Gauge(nr, nvme),
                    !.cpu_freq = Gauge(fr, Some(freq))]
              /\ cpu_history' = HistoryPush(cpu_history, cpu_call'.ret)
              /\ pushes' = [pushes EXCEPT !.cpu = @ + 1]
              /\ current_cpu_usage' = cpu_call'.ret
              /\ IF exc = "early"
                 THEN UNCHANGED <<ui, current_cpu_temp, is_critical>>
                 ELSE /\ current_cpu_temp' = IF temp # None THEN temp ELSE current_cpu_temp
                      /\ is_critical' =
                            IF temp # None /\ RatLT(FromInt(75), temp) THEN TRUE
                            ELSE is_critical
                      /\ ui' = [ui EXCEPT
                            !.cpu_usage_gauge = cpu_call'.ret,
                            !.cpu_temp_gauge = IF temp # None THEN temp ELSE @,
                            !.cpu_temp_status =
                                IF temp # None THEN get_temp_color_status(temp, <<55, 75>>)
                                ELSE @,
                            !.nvme_temp_label =
                                IF nvme # None
                                THEN <<nvme, get_temp_color_status(nvme, <<50, 70>>)>>
                                ELSE @,
                            !.cpu_freq_label = Some(freq)]
              /\ Advance("cores", exc)
    /\ UNCHANGED <<gpu_temp_history, net_rx_history, net_tx_history,
                   disk_read_history, disk_write_history, net_vars, disk_vars,
                   core_vars, cfg_vars, anim_vars, current_gpu_temp, harness_vars>>

\* update_cpu_cores, were it to drop the baseline of the aggregate CPU
\* sampler, which reads the same file.
UpdateCpuCores_DropsCpuBaseline(e) ==
    /\ pc = "cores"
    /\ \E reading \in CoreReadings(e, num_cores), exc \in ExcChoices(e) :
          /\ get_per_core_usage(reading)
          /\ stat_reads' = stat_reads + 1
          /\ ui' = IF exc = "early" THEN ui
                   ELSE [ui EXCEPT !.core_labels = core_call'.ret]
          /\ Advance("memory", exc)
    /\ has_last_cpu' = FALSE
    /\ UNCHANGED <<hist_vars, net_vars, disk_vars, last_cpu_idle, last_cpu_total,
                   cpu_call, cfg_vars, anim_vars, pushes, gauge_call, cur_vars, harness_vars>>

\* update_cpu_cores
UpdateCpuCores(e) ==
    /\ pc = "cores"
    /\ \E reading \in CoreReadings(e, num_cores), exc \in ExcChoices(e) :
          /\ get_per_core_usage(reading)
          /\ stat_reads' = stat_reads + 1
          /\ ui' = IF exc = "early" THEN ui
                   ELSE [ui EXCEPT !.core_labels = core_call'.ret]
          /\ Advance("memory", exc)
    /\ UNCHANGED <<hist_vars, net_vars, disk_vars, cpu_vars, cfg_vars, anim_vars, pushes, gauge_call, cur_vars,
                   harness_vars>>

\* A step whose external command never returns: update_all stays in it.
Blocked ==
    /\ pc' = "blocked"
    /\ UNCHANGED <<ticks, pending, errors>>

\* update_memory
UpdateMemory(e) ==
    /\ pc = "memory"
    /\ \E cmd \in CmdOutcomes(e), reading \in MemReadings(e),
          exc \in ExcChoices(e) \ {"early"} :
          LET mem == get_memory_info(reading)
          IN  IF cmd = "hangs"
              THEN Blocked /\ UNCHANGED <<ui, gauge_call>>
              ELSE /\ gauge_call' = [gauge_call EXCEPT !.mem = Gauge(reading, mem)]
                   /\ ui' = IF mem # None
                            THEN [ui EXCEPT !.ram_percent = mem.mem_percent]
                            ELSE ui
                   /\ Advance("storage", exc)
    /\ UNCHANGED <<hist_vars, net_vars, disk_vars, cpu_vars, core_vars, cfg_vars, anim_vars, pushes,
                   stat_reads, cur_vars, harness_vars>>

\* update_storage: rebuilds the storage rows, which the model does not hold.
UpdateStorage(e) ==
    /\ pc = "storage"
    /\ \E cmd \in CmdOutcomes(e), exc \in ExcChoices(e) \ {"early"} :
          IF cmd = "hangs" THEN Blocked ELSE Advance("disk", exc)
    /\ UNCHANGED <<hist_vars, net_vars, disk_vars, cpu_vars, core_vars, cfg_vars, anim_vars, pushes,
                   probe_vars, cur_vars, ui, harness_vars>>

\* update_disk_io
UpdateDiskIo(e) ==
    /\ pc = "disk"
    /\ \E reading \in DiskReadings(e), now \in DiskClock(e), exc \in ExcChoices(e) :
          /\ get_disk_io(reading, now)
          /\ IF exc = "early"
             THEN UNCHANGED <<ui, disk_read_history, disk_write_history, pushes>>
             ELSE /\ ui' = [ui EXCEPT !.disk_read_label = disk_call'.ret[1],
                                      !.disk_write_label = disk_call'.ret[2]]
                  /\ disk_read_history' = HistoryPush(disk_read_history, disk_call'.ret[1])
                  /\ disk_write_history' = HistoryPush(disk_write_history, disk_call'.ret[2])
                  /\ pushes' = [pushes EXCEPT !.disk_read = @ + 1, !.disk_write = @ + 1]
          /\ Advance("net", exc)
    /\ UNCHANGED <<cpu_history, gpu_temp_history, net_rx_history, net_tx_history,
                   net_vars, cpu_vars, core_vars, cfg_vars, anim_vars, probe_vars, cur_vars, harness_vars>>

\* update_network
UpdateNetwork(e) ==
    /\ pc = "net"
    /\ \E reading \in NetReadings(e), now \in NetClock(e), exc \in ExcChoices(e) :
          /\ get_network_speed(reading, now)
          /\ IF exc = "early"
             THEN UNCHANGED <<ui, net_rx_history, net_tx_history, pushes>>
             ELSE /\ ui' = [ui EXCEPT !.net_dl_label = net_call'.ret[1],
                                      !.net_ul_label = net_call'.ret[2]]
                  /\ net_rx_history' = HistoryPush(net_rx_history, net_call'.ret[1])
                  /\ net_tx_history' = HistoryPush(net_tx_history, net_call'.ret[2])
                  /\ pushes' = [pushes EXCEPT !.net_rx = @ + 1, !.net_tx = @ + 1]
          /\ Advance("procs", exc)
    /\ UNCHANGED <<cpu_history, gpu_temp_history, disk_read_history,
                   disk_write_history, disk_vars, cpu_vars, core_vars, cfg_vars, anim_vars, probe_vars,
                   cur_vars, harness_vars>>

\* update_processes: fills the process rows, which the model does not hold.
UpdateProcesses(e) ==
    /\ pc = "procs"
    /\ \E cmd \in CmdOutcomes(e), exc \in ExcChoices(e) \ {"early"} :
          IF cmd = "hangs" THEN Blocked ELSE Advance("status", exc)
    /\ UNCHANGED <<hist_vars, net_vars, disk_vars, cpu_vars, core_vars, cfg_vars, anim_vars, pushes,
                   probe_vars, cur_vars, ui, harness_vars>>

\* update_system_status
UpdateSystemStatus(e) ==
    /\ pc = "status"
    /\ \E exc \in ExcChoices(e) \ {"early"} :
          /\ ui' = [ui EXCEPT !.status_text =
                        IF is_critical THEN "THERMAL WARNING" ELSE "ALL SYSTEMS NOMINAL"]
          /\ Advance("resched", exc)
    /\ UNCHANGED <<hist_vars, net_vars, disk_vars, cpu_vars, core_vars, cfg_vars, anim_vars, pushes, probe_vars,
                   cur_vars, harness_vars>>

\* The end of update_all: self.root.after(1000, self.update_all)
Reschedule ==
    /\ pc = "resched"
    /\ pc' = "idle"
    /\ pending' = pending + 1
    /\ UNCHANGED <<ticks, errors, hist_vars, net_vars, disk_vars, cpu_vars, core_vars,
                   cfg_vars, anim_vars, pushes, probe_vars, cur_vars, ui, harness_vars>>

\* update_all of v4 under environment e.
NextV4(e) ==
    \/ StartTick(e)
    \/ UpdateTime
    \/ UpdateGpu(e)
    \/ UpdateCpu(e)
    \/ UpdateCpuCores(e)
    \/ UpdateMemory(e)
    \/ UpdateStorage(e)
    \/ UpdateDiskIo(e)
    \/ UpdateNetwork(e)
    \/ UpdateProcesses(e)
    \/ UpdateSystemStatus(e)
    \/ Reschedule

Next == NextV4(env)

\* Reads fail and exceptions escape; the counters and the clock advance.
Spec == InitV4({"faults"}) /\ [][Next]_vars

\* The network counters and its clock, or the disk counters and its clock,
\* take any values.
SpecRates == InitV4({"net", "disk"}) /\ [][Next]_vars

\* The aggregate CPU tick counters, or the per-core ones, take any values.
SpecCpu == InitV4({"cpu", "cores"}) /\ [][Next]_vars

\* animate, were it to schedule the tick callback as well as itself.
Animate_SchedulesTick ==
    /\ pc = "idle"
    /\ anim_pending > 0
    /\ pulse_state < 1 + MaxFrames
    /\ pulse_state' = (pulse_state + 1) % 20
    /\ alert_flash' = ~alert_flash
    /\ anim_pending' = (anim_pending - 1) + 1
    /\ pending' = pending + 1
    /\ UNCHANGED <<ticks, errors, pc, hist_vars, net_vars, disk_vars, cpu_vars,
                   core_vars, cfg_vars, cur_vars, ui, probe_vars, pushes, harness_vars>>

\* animate, the 50 ms callback: the event loop runs it when no other callback
\* is running; it flips alert_flash, advances pulse_state and schedules
\* itself again.
Animate ==
    /\ pc = "idle"
    /\ anim_pending > 0
    /\ pulse_state < 1 + MaxFrames
    /\ pulse_state' = (pulse_state + 1) % 20
    /\ alert_flash' = ~alert_flash
    /\ anim_pending' = (anim_pending - 1) + 1
    /\ UNCHANGED <<hist_vars, net_vars, disk_vars, cpu_vars, core_vars, cfg_vars,
                   cur_vars, ui, sched_vars, probe_vars, pushes, harness_vars>>

\* The two timer callbacks of v4 under the event loop.
NextAnim ==
    \/ NextV4(env)
    \/ Animate

\* The tick and the animation callbacks interleave; exceptions escape the
\* update_* steps.
SpecAnim == InitV4({"anim"}) /\ [][NextAnim]_vars

\* The gauge sources (GPU telemetry; CPU and NVMe temperature; frequencies,
\* VRAM, fans, memory, the stat counters) fail or take any values.
SpecGauges == InitV4({"gpu", "temps", "direct"}) /\ [][Next]_vars

\* The program started with or without the privilege flag; the telemetry
\* file is readable in some ticks and not in others.
SpecRoot == InitV4({"root"}) /\ [][Next]_vars

\* External commands may never return; the timer and the callback are
\* otherwise always run by the event loop.
SpecHang == InitV4({"hang"}) /\ [][Next]_vars /\ WF_vars(Next)

\* ------------------------------------------------------ the first variant

\* An update_* step of the first variant that changes nothing the model holds.
Passive(from, to) ==
    /\ pc = from
    /\ pc' = to
    /\ UNCHANGED <<ticks, pending, errors, hist_vars, net_vars, disk_vars, cpu_vars,
                   core_vars, cfg_vars, anim_vars, pushes, probe_vars, cur_vars, ui, harness_vars>>

\* __init__ of the first variant, up to its call of update_all.
InitV1 ==
    /\ InitV4({"v1"})

\* update_time
V1UpdateTime == Passive("time", "v1_thermal")

\* update_thermal: the CPU temperature is classified by (55, 75); the GPU
\* temperature, when there is one, is shown as NOMINAL.
V1UpdateThermal(e) ==
    /\ pc = "v1_thermal"
    /\ \E cr \in TempReadings(e), gr \in TempReadings(e) :
          LET cpu_temp == get_cpu_temp(cr)
              gpu_temp == get_cpu_temp(gr)
          IN  ui' = [ui EXCEPT
                 !.cpu_temp_gauge = IF cpu_temp # None THEN cpu_temp ELSE @,
                 !.cpu_temp_status =
                     IF cpu_temp # None THEN get_temp_color_status(cpu_temp, <<55, 75>>)
                     ELSE @,
                 !.gpu_temp_gauge = gpu_temp,
                 !.gpu_temp_status = IF gpu_temp # None THEN "NOMINAL" ELSE "NO SENSOR"]
    /\ pc' = "v1_cpu"
    /\ UNCHANGED <<ticks, pending, errors, hist_vars, net_vars, disk_vars, cpu_vars,
                   core_vars, cfg_vars, anim_vars, pushes, probe_vars, cur_vars, harness_vars>>

\* update_cpu of the first variant
V1UpdateCpu(e) ==
    /\ pc = "v1_cpu"
    /\ \E reading \in StatReadings(e), fr \in CpuFreqReadings(e) :
          /\ get_cpu_usage(reading)
          /\ stat_reads' = stat_reads + 1
          /\ cpu_history' = HistoryPush(cpu_history, cpu_call'.ret)
          /\ pushes' = [pushes EXCEPT !.cpu = @ + 1]
          /\ ui' = [ui EXCEPT !.cpu_usage_gauge = cpu_call'.ret,
                              !.cpu_freq_label = Some(get_cpu_freq(fr))]
    /\ pc' = "v1_memory"
    /\ UNCHANGED <<ticks, pending, errors, gpu_temp_history, net_rx_history, net_tx_history,
                   disk_read_history, disk_write_history, net_vars, disk_vars,
                   core_vars, cfg_vars, anim_vars, gauge_call, cur_vars, harness_vars>>

\* update_memory
V1UpdateMemory == Passive("v1_memory", "v1_storage")

\* update_storage
V1UpdateStorage == Passive("v1_storage", "v1_net")

\* update_network of the first variant
V1UpdateNetwork(e) ==
    /\ pc = "v1_net"
    /\ \E reading \in NetReadings(e), now \in NetClock(e) :
          /\ get_network_speed_v1(reading, now)
          /\ ui' = [ui EXCEPT !.net_dl_label = net_call'.ret[1],
                              !.net_ul_label = net_call'.ret[2]]
          /\ net_rx_history' = HistoryPush(net_rx_history, net_call'.ret[1])
          /\ net_tx_history' = HistoryPush(net_tx_history, net_call'.ret[2])
          /\ pushes' = [pushes EXCEPT !.net_rx = @ + 1, !.net_tx = @ + 1]
    /\ pc' = "v1_procs"
    /\ UNCHANGED <<ticks, pending, errors, cpu_history, gpu_temp_history, disk_read_history,
                   disk_write_history, disk_vars, cpu_vars, core_vars, cfg_vars, anim_vars, probe_vars,
                   cur_vars, harness_vars>>

\* update_processes
V1UpdateProcesses == Passive("v1_procs", "v1_status")

\* update_system_status
V1UpdateSystemStatus == Passive("v1_status", "v1_blink")

\* blink_status
V1BlinkStatus == Passive("v1_blink", "resched")

\* update_all of the first variant.
NextV1 ==
    \/ StartTick(env)
    \/ V1UpdateTime
    \/ V1UpdateThermal(env)
    \/ V1UpdateCpu(env)
    \/ V1UpdateMemory
    \/ V1UpdateStorage
    \/ V1UpdateNetwork(env)
    \/ V1UpdateProcesses
    \/ V1UpdateSystemStatus
    \/ V1BlinkStatus
    \/ Reschedule

\* An interface that comes and goes, or cannot be read, next to one that
\* stays.
SpecIfaces == InitV4({"ifaces"}) /\ [][Next]_vars

\* The first variant; the network counters and the clock take any values.
SpecV1 == InitV1 /\ [][NextV1]_vars

\* The first variant; the two temperature sensors take cool, warm and hot
\* values, or cannot be read.
SpecV1Thermal == InitV4({"v1t"}) /\ [][NextV1]_vars

\* ------------------------------------------------- the temperature monitor

\* temp1_input of the GPU (hwmon3) or of the CPU (hwmon2), in millidegrees.
\* A file that is not there sends the sampler to the `sensors` command, run
\* with timeout=5; the model takes that path to find no temperature.
TmReadings(e) == {Fail} \cup {[ok |-> TRUE, raw |-> r] : r \in {40000, 60000, 80000}}

\* TemperatureMonitor.get_gpu_temp and get_cpu_temp
tm_get_temp(reading) == IF reading.ok THEN Rat(reading.raw, 1000) ELSE None

\* TemperatureMonitor.get_temp_status: the status text
get_temp_status(temp, is_gpu) ==
    LET low == IF is_gpu THEN 50 ELSE 55
    IN  IF temp = None THEN "Not detected"
        ELSE IF RatLT(temp, FromInt(low)) THEN "Cool"
        ELSE IF RatLT(temp, FromInt(75)) THEN "Normal"
        ELSE "Hot"

\* TemperatureMonitor.__init__, up to its call of update_temperatures.  The
\* two cards are held in the temperature fields of ui.
InitTemp == InitV4({"tm"})

\* update_temperatures, the tick callback: it has no try, so an exception
\* that escapes a widget call ends it before self.root.after.
TmUpdateTemperatures(e) ==
    /\ pc = "time"
    /\ \E gr \in TmReadings(e), cr \in TmReadings(e), exc \in {"none", "early", "late"} :
          LET gpu_temp == tm_get_temp(gr)
              cpu_temp == tm_get_temp(cr)
          IN  /\ ui' = IF exc = "early" THEN ui
                       ELSE [ui EXCEPT
                               !.gpu_temp_gauge = gpu_temp,
                               !.gpu_temp_status = get_temp_status(gpu_temp, TRUE),
                               !.cpu_temp_gauge = cpu_temp,
                               !.cpu_temp_status = get_temp_status(cpu_temp, FALSE)]
              /\ pending' = IF exc = "none" THEN pending + 1 ELSE pending
              /\ errors' = IF exc = "none" THEN errors ELSE errors + 1
    /\ pc' = "idle"
    /\ UNCHANGED <<ticks, hist_vars, net_vars, disk_vars, cpu_vars, core_vars, cfg_vars, anim_vars, pushes,
                   probe_vars, cur_vars, harness_vars>>

NextTemp ==
    \/ StartTick(env)
    \/ TmUpdateTemperatures(env)

\* The temperature monitor; reads fail and widget calls raise.
SpecTemp == InitTemp /\ [][NextTemp]_vars

\* ------------------------------------------------- pure-function harnesses

\* Values pushed that are not 0.
MaxMarks == 1

\* The history buffer alone: HistLen + ExtraPushes pushes of 0 or of the
\* push's own number, onto the zero-filled buffer.
InitHist == InitV4({"hist"})

PushStep ==
    /\ env = "hist"
    /\ Len(pushed) < HistLen + ExtraPushes
    /\ \E v \in {Zero, FromInt(Len(pushed) + 1)} :
          /\ v # Zero =>
                Cardinality({i \in DOMAIN pushed : pushed[i] # Zero}) < MaxMarks
          /\ cpu_history' = HistoryPush(cpu_history, v)
          /\ pushed' = Append(pushed, v)
    /\ UNCHANGED <<gpu_temp_history, net_rx_history, net_tx_history,
                   disk_read_history, disk_write_history, net_vars, disk_vars,
                   cpu_vars, core_vars, cfg_vars, anim_vars, pushes, probe_vars, cur_vars, ui, sched_vars, cls>>

SpecHist == InitHist /\ [][PushStep]_vars

\* Temperatures handed to the classifier: None, and values at and around
\* the thresholds the program uses.
ClsTemps ==
    {None} \cup {FromInt(t) : t \in {0, 49, 50, 54, 55, 56, 59, 60, 61, 69, 70,
                                     74, 75, 76, 79, 80, 81, 84, 85, 86, 120}}
           \cup {Rat(54999, 1000), Rat(74999, 1000), Rat(75001, 1000)}

\* The threshold pairs of the calls in update_gpu and update_cpu.
ClsThresholds == {<<55, 80>>, <<60, 85>>, <<55, 75>>, <<50, 70>>}

InitClassify == InitV4({"classify"})

\* One call of get_temp_color_status.
ClassifyStep ==
    /\ env = "classify"
    /\ \E temp \in ClsTemps, th \in ClsThresholds :
          cls' = [temp |-> temp, thresholds |-> th,
                  status |-> get_temp_color_status(temp, th)]
    /\ UNCHANGED <<hist_vars, net_vars, disk_vars, cpu_vars, core_vars, cfg_vars, anim_vars, pushes, probe_vars,
                   cur_vars, ui, sched_vars, pushed>>

SpecClassify == InitClassify /\ [][ClassifyStep]_vars

\* ================================================================ claims

\* The rate a stream should report for two successive reads v1, v2 taken
\* t1, t2 apart.
DeltaOverElapsed(v1, t1, v2, t2) == Rat(v2 - v1, t2 - t1)

\* Rate stream k (1 or 2) of a sampler call: the latest call was a successful
\* sample and so was the one whose read it is compared with.
Consecutive(call) == call.ok /\ call.n >= 2

\* C1 for one stream of one sampler.
RateIsExact(call, k) ==
    (/\ Consecutive(call)
     /\ call.read[3] > call.prev_read[3]
     /\ call.read[k] >= call.prev_read[k]
     /\ call.prev_read[k] >= 0)
    => call.ret[k] = DeltaOverElapsed(call.prev_read[k], call.prev_read[3],
                                      call.read[k], call.read[3])

\* C1: for two consecutive successful samples (v1,t1), (v2,t2) of a byte
\* counter stream (network rx, tx, disk read, write) with t2 > t1 and
\* v2 >= v1 >= 0, the rate returned at the second sample is (v2-v1)/(t2-t1).
C1_RateIsDeltaOverElapsed ==
    /\ RateIsExact(net_call, 1)
    /\ RateIsExact(net_call, 2)
    /\ RateIsExact(disk_call, 1)
    /\ RateIsExact(disk_call, 2)

\* C2: the first sample of a stream after startup returns 0 whatever is read
\* (get_network_speed, get_disk_io, get_cpu_usage, each core of
\* get_per_core_usage), and nothing divides by zero.
C2_FirstSampleIsZero ==
    /\ (net_call.ok /\ net_call.n = 1) => net_call.ret = <<Zero, Zero>>
    /\ (disk_call.ok /\ disk_call.n = 1) => disk_call.ret = <<Zero, Zero>>
    /\ (cpu_call.ok /\ cpu_call.n = 1) => cpu_call.ret = Zero
    /\ (core_call.ok /\ core_call.n = 1) =>
           \A i \in DOMAIN core_call.ret : core_call.ret[i] = Zero
    /\ ~net_call.zerodiv /\ ~disk_call.zerodiv
    /\ ~cpu_call.zerodiv /\ ~core_call.zerodiv

\* The latest sample of stream k read less than the one before it.
WentBack(call, k) == Consecutive(call) /\ call.read[k] < call.prev_read[k]

\* C3 for one stream: a step from a state whose latest sample went back.
ResyncStep(call, callp, last, k) ==
    WentBack(call, k) =>
        /\ call.ret[k] = Zero
        /\ last = <<call.read[k], call.read[3]>>
        /\ (/\ callp.ok
            /\ callp.n = call.n + 1
            /\ callp.read[k] >= call.read[k]
            /\ callp.read[3] > call.read[3])
           => callp.ret[k] = DeltaOverElapsed(call.read[k], call.read[3],
                                              callp.read[k], callp.read[3])

\* C3: when a counter goes back (v2 < v1) the rate returned is 0 and the
\* stored previous sample becomes (v2,t2), so that the rate of the following
\* sample (v3,t3) is computed from v3 - v2 and t3 - t2.
C3_ResetResyncs ==
    [][/\ ResyncStep(net_call, net_call', <<last_net_rx, last_net_time>>, 1)
       /\ ResyncStep(net_call, net_call', <<last_net_tx, last_net_time>>, 2)
       /\ ResyncStep(disk_call, disk_call', <<last_disk_read, last_disk_time>>, 1)
       /\ ResyncStep(disk_call, disk_call', <<last_disk_write, last_disk_time>>, 2)
      ]_vars

\* The sample taken in this step found the clock not advanced.
ClockStoodStill(call, callp) ==
    /\ call.ok
    /\ call.n >= 1
    /\ callp.ok
    /\ callp.n = call.n + 1
    /\ callp.read[3] <= call.read[3]

StoodStill(call) ==
    call.ok /\ call.n >= 2 /\ call.read[3] <= call.prev_read[3]

NonNegative(r) == RatLE(Zero, r)

\* C5: every rate get_network_speed and get_disk_io return, and every
\* element of the four rate histories, is >= 0.
C5_RatesNonNegative ==
    /\ net_call.ret # None => NonNegative(net_call.ret[1]) /\ NonNegative(net_call.ret[2])
    /\ disk_call.ret # None => NonNegative(disk_call.ret[1]) /\ NonNegative(disk_call.ret[2])
    /\ \A i \in 1..HistLen :
          /\ NonNegative(net_rx_history[i])
          /\ NonNegative(net_tx_history[i])
          /\ NonNegative(disk_read_history[i])
          /\ NonNegative(disk_write_history[i])

\* A disk counter above 0 went back while the clock advanced, and the
\* sample was pushed.
C5_Witness ==
    /\ WentBack(disk_call, 2)
    /\ disk_call.read[2] > 0
    /\ disk_call.read[3] > disk_call.prev_read[3]
    /\ pc = "net"


\* The last n elements of a sequence.
LastN(q, n) == SubSeq(q, Len(q) - n + 1, Len(q))

\* C6: after any N pushes onto a history buffer initialised to 60 zeros the
\* buffer is the last 60 elements of the 60 zeros followed by the pushed
\* values in push order; for N >= 60 it is the last 60 pushed values.
C6_BufferIsLastSixty ==
    env = "hist" =>
        /\ cpu_history = LastN(ZeroHistory \o pushed, HistLen)
        /\ Len(pushed) >= HistLen => cpu_history = LastN(pushed, HistLen)

\* More than 60 pushes, a value other than 0 among those still held.
C6_Witness ==
    /\ env = "hist"
    /\ Len(pushed) > HistLen
    /\ \E i \in 1..HistLen : cpu_history[i] # Zero

\* C7: before and after every update_* call, on every tick (failed reads and
\* caught exceptions included), every history buffer has length 60.
C7_HistoryLengthIsSixty ==
    /\ Len(cpu_history) = HistLen
    /\ Len(gpu_temp_history) = HistLen
    /\ Len(net_rx_history) = HistLen
    /\ Len(net_tx_history) = HistLen
    /\ Len(disk_read_history) = HistLen
    /\ Len(disk_write_history) = HistLen

\* The second tick is over; an exception was caught, a read has failed and
\* values have been pushed.
C7_Witness ==
    /\ pc = "idle"
    /\ ticks = 2
    /\ errors > 0
    /\ disk_call.n = 1 /\ ~disk_call.ok
    /\ net_rx_history[HistLen] # Zero
    /\ gpu_temp_history[HistLen] # Zero

\* temp < n, for a temperature and a threshold.
Below(temp, n) == temp[1] < n * temp[2]

\* C8: get_temp_color_status(value, (low, high)) is OFFLINE for None,
\* NOMINAL for value < low, ELEVATED for low <= value < high and CRITICAL
\* for value >= high; value = low is ELEVATED and value = high is CRITICAL.
C8_ClassifierBands ==
    cls # None =>
        LET low == cls.thresholds[1]
            high == cls.thresholds[2]
        IN  /\ cls.temp = None => cls.status = "OFFLINE"
            /\ cls.temp # None =>
                 /\ Below(cls.temp, low) => cls.status = "NOMINAL"
                 /\ (~Below(cls.temp, low) /\ Below(cls.temp, high))
                       => cls.status = "ELEVATED"
                 /\ ~Below(cls.temp, high) => cls.status = "CRITICAL"
                 /\ cls.temp = FromInt(low) => cls.status = "ELEVATED"
                 /\ cls.temp = FromInt(high) => cls.status = "CRITICAL"

\* A value at the high threshold has been classified.
C8_Witness ==
    /\ cls # None
    /\ cls.temp = FromInt(cls.thresholds[2])
    /\ cls.status = "CRITICAL"

\* 100 * (1 - d_idle / d_total) clamped to [0, 100].
ClampedUsage(d_idle, d_total) ==
    LET raw == Rat(100 * (d_total - d_idle), d_total)
    IN  IF raw[1] < 0 THEN Zero
        ELSE IF raw[1] > 100 * raw[2] THEN FromInt(100)
        ELSE raw

\* C9: for two consecutive successful reads of the aggregate tick counters
\* with delta_total > 0, get_cpu_usage returns 100 * (1 - delta_idle /
\* delta_total) clamped to [0,100], the deltas taken against the preceding
\* successful read; (1000, 2000) then (1400, 2500) gives 20.
C9_CpuUsageFromDeltas ==
    (/\ Consecutive(cpu_call)
     /\ cpu_call.read[2] - cpu_call.prev_read[2] > 0)
    => /\ cpu_call.ret = ClampedUsage(cpu_call.read[1] - cpu_call.prev_read[1],
                                      cpu_call.read[2] - cpu_call.prev_read[2])
       /\ (cpu_call.prev_read = <<1000, 2000>> /\ cpu_call.read = <<1400, 2500>>)
             => cpu_call.ret = FromInt(20)

\* (idle=1000, total=2000) was read, then (idle=1400, total=2500).
C9_Witness ==
    /\ Consecutive(cpu_call)
    /\ cpu_call.prev_read = <<1000, 2000>>
    /\ cpu_call.read = <<1400, 2500>>
    /\ cpu_history[HistLen] = FromInt(20)

\* 0 <= u <= 100
IsPercent(u) == RatLE(Zero, u) /\ RatLE(u, FromInt(100))

\* C10: every value get_cpu_usage returns, every element of the list
\* get_per_core_usage returns (which has num_cores elements) and every
\* element of cpu_history is in [0,100]; nothing divides by zero.
C10_UsageIsPercent ==
    /\ cpu_call.ret # None => IsPercent(cpu_call.ret)
    /\ core_call.ret # None =>
          /\ Len(core_call.ret) = num_cores
          /\ \A i \in 1..num_cores : IsPercent(core_call.ret[i])
    /\ \A i \in 1..HistLen : IsPercent(cpu_history[i])
    /\ ~cpu_call.zerodiv
    /\ ~core_call.zerodiv

\* The idle counter advanced by more than the total, so the unclamped usage
\* was below 0; and the sample was pushed.
C10_Witness ==
    /\ Consecutive(cpu_call)
    /\ cpu_call.read[2] - cpu_call.prev_read[2] > 0
    /\ cpu_call.read[1] - cpu_call.prev_read[1]
          > cpu_call.read[2] - cpu_call.prev_read[2]
    /\ pc = "cores"


\* The zeros of a history are its oldest elements: nothing pushed was 0.
ZerosFirst(h) == \A i \in 1..(HistLen - 1) : h[i + 1] = Zero => h[i] = Zero

\* C11: a tick in which the GPU temperature is unavailable (blob missing,
\* unreadable or rejected) leaves gpu_temp_history unchanged; no 0 is ever
\* pushed, so a 0 in it is one of the initial zeros.
C11_UnavailableLeavesHistory ==
    /\ [](ZerosFirst(gpu_temp_history))
    /\ [][(pc = "gpu" /\ gauge_call'.gpu.ret[1] = None)
             => gpu_temp_history' = gpu_temp_history]_vars

\* A temperature was pushed in the first tick; in the second the blob held
\* a value that was rejected.
C11_Witness ==
    /\ pc = "cpu"
    /\ ticks = 2
    /\ gauge_call.gpu.tick = 2
    /\ gauge_call.gpu.read.ok
    /\ gauge_call.gpu.ret[1] = None
    /\ gpu_temp_history[HistLen] # Zero
    /\ gpu_temp_history[HistLen - 1] = Zero

\* 0 <= t <= 120
Plausible(t) == RatLE(Zero, t) /\ RatLE(t, FromInt(120))

\* C12: get_gpu_temps never returns a temperature outside the 0-120 bound;
\* a sensor whose raw value is outside it (e.g. 130) is None.
C12_GpuTempsWithinBound ==
    LET g == gauge_call.gpu
    IN  g.tick > 0 =>
          /\ \A k \in 1..2 : g.ret[k] # None => Plausible(g.ret[k])
          /\ (g.read.ok /\ g.read.t1 \notin 0..120) => g.ret[1] = None
          /\ (g.read.ok /\ g.read.t2 \notin 0..120) => g.ret[2] = None

\* The blob held 130 for the first sensor.
C12_Witness ==
    /\ gauge_call.gpu.tick > 0
    /\ gauge_call.gpu.read.ok
    /\ gauge_call.gpu.read.t1 = 130
    /\ gauge_call.gpu.ret[1] = None


\* A temperature file read as raw millidegrees is reported iff 0 <= t <= 120.
GaugeValidIffPlausible(g) ==
    (g.tick > 0 /\ g.read.ok) => ((g.ret # None) <=> (g.read.raw \in 0..120000))

\* C13: for every temperature gauge (CPU, NVMe, GPU temp, GPU hotspot) a
\* value that was read is reported as valid iff 0 <= value <= 120: values
\* above 120 or below 0 are unavailable, 0 and 120 themselves are valid.
C13_ValidIffPlausible ==
    /\ GaugeValidIffPlausible(gauge_call.cpu_temp)
    /\ GaugeValidIffPlausible(gauge_call.nvme)
    /\ LET g == gauge_call.gpu
       IN  (g.tick > 0 /\ g.read.ok) =>
              /\ (g.ret[1] # None) <=> (g.read.t1 \in 0..120)
              /\ (g.ret[2] # None) <=> (g.read.t2 \in 0..120)

\* The source of a gauge sampler could not be read in its latest call.
ReadFailed(g) == g.tick > 0 /\ ~g.read.ok

\* C14: when the source of a directly sampled metric (CPU usage, CPU
\* frequency, fan RPM, GPU temperature) cannot be read, the value handed on
\* is a distinct unavailable value, never 0: a failed CPU-usage read pushes
\* no 0 into cpu_history and a missing GPU temperature is not drawn as 0.
C14_UnavailableIsNotZero ==
    /\ (cpu_call # NoCall /\ ~cpu_call.ok) =>
          /\ cpu_call.ret = None
          /\ pc = "cores" => cpu_history[HistLen] # Zero
    /\ ReadFailed(gauge_call.cpu_freq) => gauge_call.cpu_freq.ret = None
    /\ (gauge_call.fans.tick > 0
        /\ \A i \in DOMAIN gauge_call.fans.read : gauge_call.fans.read[i] = NoRead)
          => gauge_call.fans.ret = None
    /\ (pc = "cpu" /\ errors = 0 /\ gauge_call.gpu.tick = ticks
        /\ gauge_call.gpu.ret[1] = None)
          => ui.gpu_temp_gauge # Zero

\* A status text that says there is no data.
NoDataStatus == {"OFFLINE", "NO ACCESS", "STANDBY"}

\* The gauge sampler returned None in the tick that has just completed.
UnavailableThisTick(g) == pc = "idle" /\ g.tick = ticks /\ g.ret = None

\* C15: after a completed tick in which a metric was unavailable, what is
\* displayed for it is the no-data state, not a value or severity status
\* left over from before (CPU temperature, NVMe temperature, GPU frequency,
\* VRAM, memory, GPU temperature).
C15_UnavailableShowsNoData ==
    /\ UnavailableThisTick(gauge_call.cpu_temp) =>
          /\ ui.cpu_temp_status \in NoDataStatus
          /\ ui.cpu_temp_gauge = None
    /\ UnavailableThisTick(gauge_call.nvme) => ui.nvme_temp_label = None
    /\ UnavailableThisTick(gauge_call.mem) => ui.ram_percent = None
    /\ (pc = "idle" /\ gauge_call.gpu_freq.tick = ticks
        /\ gauge_call.gpu_freq.ret[1] = None) => ui.gpu_freq_label = None
    /\ (pc = "idle" /\ gauge_call.vram.tick = ticks
        /\ gauge_call.vram.ret[1] = None) => ui.vram_label = None
    /\ (pc = "idle" /\ gauge_call.gpu.tick = ticks
        /\ gauge_call.gpu.ret[1] = None) => ui.gpu_temp_status \in NoDataStatus


\* C16: whatever happens during a tick (a read fails, an exception escapes
\* a step), the tick callback schedules the next tick: after every return
\* of the callback exactly one next invocation is pending.
C16_NextTickPending == pc = "idle" => pending = 1


\* Every sampler of the tick has been called in the tick that just ended.
AllStepsRan ==
    pc = "idle" =>
        /\ \A f \in DOMAIN gauge_call : gauge_call[f].tick = ticks
        /\ stat_reads = 2
        /\ net_call.n = ticks
        /\ disk_call.n = ticks

\* C17: within a tick a read failure of any single metric's source does not
\* keep the later metrics from being sampled in the same tick: the failing
\* metric is recorded as unavailable and every later update_* step runs.
C17_FailureDoesNotStopTick ==
    /\ errors = 0
    /\ AllStepsRan
    /\ \A f \in {"cpu_temp", "nvme", "mem", "cpu_freq"} :
          ReadFailed(gauge_call[f]) => gauge_call[f].ret = None
    /\ \A f \in {"gpu", "gpu_freq", "vram"} :
          ReadFailed(gauge_call[f]) => gauge_call[f].ret = <<None, None>>
    /\ (cpu_call # NoCall /\ ~cpu_call.ok) => cpu_call.ret = None

\* C17 without its last two metrics: the samplers that return None.
C17_NoneSamplersOnly ==
    /\ errors = 0
    /\ AllStepsRan
    /\ \A f \in {"cpu_temp", "nvme", "mem"} :
          ReadFailed(gauge_call[f]) => gauge_call[f].ret = None
    /\ \A f \in {"gpu", "gpu_freq", "vram"} :
          ReadFailed(gauge_call[f]) => gauge_call[f].ret = <<None, None>>


\* C18: within a tick the aggregate CPU usage and the per-core usages come
\* from one read of the stat counters: the source is read once per tick.
C18_OneStatReadPerTick == stat_reads <= 1

\* C19: what the renderer shows changes only after all metrics of the tick
\* have been sampled (the last sampling is in update_system_status), so a
\* tick aborted part-way leaves the display as the tick before left it.
C19_DisplayChangesAfterSampling ==
    [][ui' # ui => pc \in {"status", "resched"}]_vars

\* C20: every tick that starts completes, even when an external command
\* run during the tick never returns.
C20_TickCompletes == (pc = "time") ~> (pc = "idle")


\* C21: the tick callback is never re-entered or duplicated, however the
\* tick and the animation callbacks interleave: at most one invocation of
\* the tick is pending, exactly one while the program idles between ticks
\* and none while a tick is sampling, and a tick starts only from the idle
\* event loop, consuming the one pending invocation.
C21_SingleTickChain ==
    /\ [](/\ pending <= 1
          /\ pc = "idle" => pending = 1
          /\ pc # "idle" => pending = 0
          /\ anim_pending = 1)
    /\ [][ticks' # ticks => pc = "idle" /\ pending = 1 /\ pending' = 0]_vars

\* Two ticks and three animation frames have run, one tick was cut short by
\* an exception, and the program idles with one tick pending.
C21_Witness ==
    /\ pc = "idle"
    /\ ticks >= 2
    /\ errors > 0
    /\ pulse_state >= 4
    /\ pending = 1


\* The telemetry file was opened by the tick that is running or just ended.
TelemetryReadThisTick ==
    gauge_call.gpu.tick = ticks /\ gauge_call.gpu.read # None

\* C22: the privilege flag is fixed at startup. While it is false no tick
\* reads the telemetry source, GPU temperature and hotspot are unavailable
\* in every tick and the GPU temperature history stays at its sixty zeros;
\* while it is true every tick reads the source.
C22_PrivilegeGatesTelemetry ==
    /\ [][has_root' = has_root]_vars
    /\ [](~has_root =>
            /\ gauge_call.gpu.read = None
            /\ gauge_call.gpu.tick > 0 => gauge_call.gpu.ret = <<None, None>>
            /\ gpu_temp_history = ZeroHistory
            /\ ui.gpu_temp_status \in {"STANDBY", "NO ACCESS"}
            /\ ui.gpu_hotspot_status \in {"STANDBY", "NO ACCESS"})
    /\ [](has_root /\ pc \notin {"time", "gpu"} => TelemetryReadThisTick)
    /\ [](pc \notin {"time", "gpu"} => gauge_call.gpu.tick = ticks)

\* Without the flag the third tick has sampled the GPU and shows no access.
C22_Witness ==
    /\ ~has_root
    /\ ticks = MaxTicks
    /\ pc = "idle"
    /\ gauge_call.gpu.tick = ticks
    /\ ui.gpu_temp_status = "NO ACCESS"

\* With the flag the third tick has read the source, which was readable in
\* some earlier tick.
C22_WitnessRoot ==
    /\ has_root
    /\ ticks = MaxTicks
    /\ pc = "idle"
    /\ TelemetryReadThisTick
    /\ gpu_temp_history # ZeroHistory


\* The latest call of gauge sampler f found its source readable.
SourceReadable(f) ==
    /\ gauge_call[f].tick > 0
    /\ gauge_call[f].read # None
    /\ gauge_call[f].read.ok

\* C23: no sampler gives up for good. Every tick attempts every read again,
\* however many earlier ticks failed, and a call that finds its source
\* readable reports the value read, whatever the earlier calls returned.
C23_NoPermanentGiveUp ==
    /\ pc \notin {"time", "gpu"} => gauge_call.gpu.tick = ticks
    /\ pc \notin {"time", "gpu", "cpu"} =>
            gauge_call.cpu_temp.tick = ticks /\ gauge_call.nvme.tick = ticks
    /\ has_root /\ SourceReadable("gpu") =>
            gauge_call.gpu.ret = <<FromInt(gauge_call.gpu.read.t1),
                                   FromInt(gauge_call.gpu.read.t2)>>
    /\ SourceReadable("cpu_temp") =>
            gauge_call.cpu_temp.ret = Rat(gauge_call.cpu_temp.read.raw, 1000)
    /\ SourceReadable("nvme") =>
            gauge_call.nvme.ret = Rat(gauge_call.nvme.read.raw, 1000)

\* The telemetry source was unreadable in the first two ticks (nothing was
\* pushed) and the third tick read it and pushed its value.
C23_Witness ==
    /\ has_root
    /\ ticks = MaxTicks
    /\ pc = "cpu"
    /\ SourceReadable("gpu")
    /\ gpu_temp_history[HistLen] = FromInt(gauge_call.gpu.read.t1)
    /\ gpu_temp_history[HistLen - 1] = Zero


\* The step changes one of the widgets named in fs.
UiChanged(fs) == \E f \in fs : ui'[f] # ui[f]

\* Each metric's sample state, histories, current value and widgets change
\* only in that metric's own update step.
OwnStateFrame ==
    /\ (\/ net_vars' # net_vars
        \/ net_rx_history' # net_rx_history
        \/ net_tx_history' # net_tx_history
        \/ UiChanged({"net_dl_label", "net_ul_label"})) => pc = "net"
    /\ (\/ disk_vars' # disk_vars
        \/ disk_read_history' # disk_read_history
        \/ disk_write_history' # disk_write_history
        \/ UiChanged({"disk_read_label", "disk_write_label"})) => pc = "disk"
    /\ (\/ cpu_vars' # cpu_vars
        \/ cpu_history' # cpu_history
        \/ current_cpu_usage' # current_cpu_usage
        \/ current_cpu_temp' # current_cpu_temp
        \/ UiChanged({"cpu_usage_gauge", "cpu_temp_gauge", "cpu_temp_status",
                      "nvme_temp_label", "cpu_freq_label"})) => pc = "cpu"
    /\ (\/ core_vars' # core_vars
        \/ UiChanged({"core_labels"})) => pc = "cores"
    /\ (\/ gpu_temp_history' # gpu_temp_history
        \/ current_gpu_temp' # current_gpu_temp
        \/ UiChanged({"gpu_temp_gauge", "gpu_temp_status", "gpu_hotspot_gauge",
                      "gpu_hotspot_status", "gpu_freq_label", "vram_label",
                      "fan_label", "fan_status"})) => pc = "gpu"
    /\ UiChanged({"ram_percent"}) => pc = "memory"
    /\ UiChanged({"status_text"}) => pc = "status"

\* C24, as stated: sampling one metric changes only that metric's own
\* sample state and histories, and no variable is written by the update
\* steps of two different metrics; the thermal flag, which update_gpu
\* resets, is then changed by update_gpu alone.
C24_NoSharedVariable ==
    [][OwnStateFrame /\ (is_critical' # is_critical => pc = "gpu")]_vars

\* C24, amended: sampling one metric changes only that metric's own sample
\* state, histories and widgets; the one variable written by the update
\* steps of two metrics is the thermal flag is_critical, which update_gpu
\* resets and sets and update_cpu sets.
C24_OwnStateExceptThermalFlag ==
    [][OwnStateFrame /\ (is_critical' # is_critical => pc \in {"gpu", "cpu"})]_vars

\* In the second tick update_gpu found no critical GPU temperature and
\* update_cpu has set the flag; the CPU sample state is that of this tick.
C24_Witness ==
    /\ ticks = MaxTicksFaults
    /\ pc = "cores"
    /\ is_critical
    /\ gauge_call.gpu.tick = ticks
    /\ gauge_call.gpu.ret = <<FromInt(50), FromInt(55)>>
    /\ gauge_call.cpu_temp.tick = ticks
    /\ has_last_cpu
    /\ last_net_time = ticks - 1


\* C25: where a variant displays a temperature that is available, its
\* severity is the classification of its value: the CPU temperature against
\* (55, 75), the GPU temperature against thresholds of its own, so that a
\* GPU temperature at or above 85, beyond the critical threshold of every
\* temperature of every variant, is not shown with the lowest severity.
C25_ClassifiedByValue ==
    /\ ui.cpu_temp_gauge # None =>
            ui.cpu_temp_status = get_temp_color_status(ui.cpu_temp_gauge, <<55, 75>>)
    /\ (ui.gpu_temp_gauge # None /\ RatLE(FromInt(85), ui.gpu_temp_gauge)) =>
            ui.gpu_temp_status # "NOMINAL"

\* The first variant shows a GPU temperature of 90 as NOMINAL.
C25_HotGpuShownNominal ==
    /\ env = "v1t"
    /\ ui.gpu_temp_gauge = FromInt(90)
    /\ ui.gpu_temp_status = "NOMINAL"


\* The sectors read and written of the nvme devices of a /proc/diskstats
\* reading, summed.
RECURSIVE NvmeSectors(_)
NvmeSectors(devs) ==
    IF devs = <<>> THEN [rd |-> 0, wr |-> 0]
    ELSE LET d == Head(devs)
             rest == NvmeSectors(Tail(devs))
         IN  IF d.name \in {"nvme0n1", "nvme1n1"}
             THEN [rd |-> rest.rd + d.rd, wr |-> rest.wr + d.wr]
             ELSE rest

\* The byte counters of a successful disk sample are the summed sectors of
\* the nvme devices times 512.
C26_BytesAreSectorsTimes512 ==
    (disk_call.n >= 1) =>
        /\ disk_call.read[1] = 512 * NvmeSectors(disk_call.src.devs).rd
        /\ disk_call.read[2] = 512 * NvmeSectors(disk_call.src.devs).wr

\* C26: the disk byte counters are the sum over the nvme devices of the
\* sectors read and written, times 512, and for two consecutive successful
\* samples with elapsed time > 0 and sector counts that did not decrease the
\* rate reported is 512 * (increase of the summed sectors) / elapsed.
C26_DiskRateFromSectors ==
    /\ C26_BytesAreSectorsTimes512
    /\ (Consecutive(disk_call) /\ disk_call.read[3] > disk_call.prev_read[3]) =>
          LET cur == NvmeSectors(disk_call.src.devs)
              prev == NvmeSectors(disk_call.prev_src.devs)
              elapsed == disk_call.read[3] - disk_call.prev_read[3]
          IN  /\ cur.rd >= prev.rd =>
                    disk_call.ret[1] = Rat(512 * (cur.rd - prev.rd), elapsed)
              /\ cur.wr >= prev.wr =>
                    disk_call.ret[2] = Rat(512 * (cur.wr - prev.wr), elapsed)


\* The temperature a sampler returned in this tick was classified CRITICAL
\* against the thresholds th.
ClassifiedCritical(tick, temp, th) ==
    /\ tick = ticks
    /\ temp # None
    /\ get_temp_color_status(temp, th) = "CRITICAL"

\* C27: at the end of every completed tick the thermal flag, and with it the
\* THERMAL WARNING text, is set if and only if the GPU temperature, the GPU
\* hotspot or the CPU temperature was classified CRITICAL in that tick; the
\* flag of an earlier tick does not carry over.
C27_FlagIffClassifiedCritical ==
    (pc = "idle" /\ errors = 0) =>
        /\ is_critical =
              (\/ ClassifiedCritical(gauge_call.gpu.tick, gauge_call.gpu.ret[1], <<55, 80>>)
               \/ ClassifiedCritical(gauge_call.gpu.tick, gauge_call.gpu.ret[2], <<60, 85>>)
               \/ ClassifiedCritical(gauge_call.cpu_temp.tick, gauge_call.cpu_temp.ret,
                                     <<55, 75>>))
        /\ (ui.status_text = "THERMAL WARNING") = is_critical

\* The flag set in the first tick is gone after a second tick in which no
\* temperature passed its limit.
C27_FlagDoesNotCarryOver ==
    (pc = "idle" /\ errors = 0 /\ is_critical) =>
        \/ ClassifiedCritical(gauge_call.gpu.tick, gauge_call.gpu.ret[1], <<55, 80>>)
        \/ ClassifiedCritical(gauge_call.gpu.tick, gauge_call.gpu.ret[2], <<60, 85>>)
        \/ ClassifiedCritical(gauge_call.cpu_temp.tick, gauge_call.cpu_temp.ret, <<55, 75>>)


\* The step is a call of the sampler of step at whose read of the source
\* fails as a whole.
ReadFailsNow(step, call, callp) ==
    pc = step /\ ~callp.ok /\ ~callp.zerodiv /\ callp.n = call.n

\* The step is a successful sample that follows a failed read, with a
\* successful sample stored before the failure.
SucceedsAfterFailure(step, call, callp) ==
    pc = step /\ call.n >= 1 /\ ~call.ok /\ ~call.zerodiv /\ callp.ok

\* The rate of stream k of a successful sample is the increase since the
\* stored sample over the time since the stored sample.
RateAgainstStored(callp, k) ==
    (callp.read[3] > callp.prev_read[3] /\ callp.read[k] >= callp.prev_read[k])
    => callp.ret[k] = DeltaOverElapsed(callp.prev_read[k], callp.prev_read[3],
                                       callp.read[k], callp.read[3])

\* A failed read leaves the stored sample as it was and reports 0.
C28_FailureKeepsStoredSample ==
    [][/\ ReadFailsNow("net", net_call, net_call') =>
            /\ UNCHANGED <<last_net_rx, last_net_tx, last_net_time>>
            /\ net_call'.ret = <<Zero, Zero>>
       /\ ReadFailsNow("disk", disk_call, disk_call') =>
            /\ UNCHANGED <<last_disk_read, last_disk_write, last_disk_time>>
            /\ disk_call'.ret = <<Zero, Zero>>
       /\ ReadFailsNow("cpu", cpu_call, cpu_call') =>
            /\ UNCHANGED <<has_last_cpu, last_cpu_idle, last_cpu_total>>
            /\ cpu_call'.ret = Zero]_vars

\* C28: when the read of the source of a rate stream fails as a whole, the
\* stored previous sample is left unchanged and the tick reports 0, and the
\* next successful sample's rate is computed against the last successfully
\* stored sample, over the full time elapsed since it.
C28_FailedReadThenFullInterval ==
    [][/\ ReadFailsNow("net", net_call, net_call') =>
            /\ UNCHANGED <<last_net_rx, last_net_tx, last_net_time>>
            /\ net_call'.ret = <<Zero, Zero>>
       /\ ReadFailsNow("disk", disk_call, disk_call') =>
            /\ UNCHANGED <<last_disk_read, last_disk_write, last_disk_time>>
            /\ disk_call'.ret = <<Zero, Zero>>
       /\ ReadFailsNow("cpu", cpu_call, cpu_call') =>
            /\ UNCHANGED <<has_last_cpu, last_cpu_idle, last_cpu_total>>
            /\ cpu_call'.ret = Zero
       /\ SucceedsAfterFailure("net", net_call, net_call') =>
            RateAgainstStored(net_call', 1) /\ RateAgainstStored(net_call', 2)
       /\ SucceedsAfterFailure("disk", disk_call, disk_call') =>
            RateAgainstStored(disk_call', 1) /\ RateAgainstStored(disk_call', 2)
       /\ (SucceedsAfterFailure("cpu", cpu_call, cpu_call')
            /\ cpu_call'.read[2] > cpu_call'.prev_read[2]) =>
            cpu_call'.ret = ClampedUsage(cpu_call'.read[1] - cpu_call'.prev_read[1],
                                         cpu_call'.read[2] - cpu_call'.prev_read[2])]_vars


\* rx_bytes of the interface called name in a reading of /sys/class/net, or
\* NoRead when the interface is not there or its counter cannot be read.
IfaceRx(reading, name) ==
    LET S == {i \in 1..Len(reading.ifaces) : reading.ifaces[i].name = name}
    IN  IF S = {} THEN NoRead ELSE reading.ifaces[CHOOSE i \in S : TRUE].rx

\* The bytes received between two readings by the interfaces that were
\* counted in both.
ReceivedSince(prev, cur) ==
    LET Inc(name) ==
            IF IfaceRx(prev, name) = NoRead \/ IfaceRx(cur, name) = NoRead THEN 0
            ELSE IF IfaceRx(cur, name) >= IfaceRx(prev, name)
            THEN IfaceRx(cur, name) - IfaceRx(prev, name)
            ELSE 0
    IN  Inc("eth0") + Inc("wlan0")

\* C29: the network rate never counts bytes transferred before the previous
\* sample: when an interface appears, or becomes readable, between two
\* samples, the bytes it had already counted do not contribute, so the
\* download rate is at most what the interfaces counted in both samples
\* received in between, over the elapsed time.
C29_NoBytesFromBeforePreviousSample ==
    (Consecutive(net_call) /\ net_call.read[3] > net_call.prev_read[3]) =>
        RatLE(net_call.ret[1],
              Rat(ReceivedSince(net_call.prev_src, net_call.src),
                  net_call.read[3] - net_call.prev_read[3]))


\* C30: in every state between ticks all the histories that are pushed
\* unconditionally (CPU usage, network download and upload, disk read and
\* write) have received the same number of pushes since startup, ticks that
\* an exception cut short included.
C30_HistoriesInLockstep ==
    pc = "idle" =>
        /\ pushes.net_rx = pushes.cpu
        /\ pushes.net_tx = pushes.cpu
        /\ pushes.disk_read = pushes.cpu
        /\ pushes.disk_write = pushes.cpu

\* Without an exception every tick pushes once to each of the histories.
C30_LockstepWithoutException ==
    (pc = "idle" /\ errors = 0) =>
        \A h \in DOMAIN pushes : pushes[h] = ticks

====
